---- MODULE Spec2Model ----
(***************************************************************************)
(* Model of gtscio/data:                                                   *)
(*   - FrameworkDataTypes.validateIPropertyList / validateIProperty and    *)
(*     the handlers registerTypes() installs in DataTypeHandlerFactory     *)
(*     (packages/data-framework/src/dataTypes/frameworkDataTypes.ts);      *)
(*   - the namespace matcher of IdentifierHandlerFactory (same file,       *)
(*     lines 195-211).                                                     *)
(*                                                                         *)
(* One behaviour is one call of the public API on caller-supplied data.    *)
(* JavaScript values are tagged records; objects and arrays live in a heap *)
(* (objs, arrs) so that a value may refer back to one of its ancestors.    *)
(* The matcher works on real strings: Split and Join compute what         *)
(* String.prototype.split(":") and Array.prototype.join(":") compute.      *)
(***************************************************************************)
EXTENDS Integers, Sequences, FiniteSets, TLC

VARIABLES
    objs,       \* heap: object id -> [key, type, value] (the fields of an IProperty-like object)
    arrs,       \* heap: array id -> sequence of values
    rootFn,     \* the API function the caller invoked
    rootVal,    \* the value the caller passed
    stack,      \* call stack of validateIProperty / validateIPropertyList frames
    failures,   \* the caller's IValidationFailure[] (appended to in place)
    outcome,    \* "running" | "returned" | "TypeError" | "RangeError" | "GuardError" | "idle"
    ret,        \* boolean returned by the root validation call
    log,        \* history: calls, returns, registry lookups, validator invocations
    names,      \* IdentifierHandlerFactory matcher: registered names
    uri,        \* IdentifierHandlerFactory matcher: the uri string
    rpc,        \* matcher position: "idle" | "guard" | "loop" | "done"
    ri,         \* matcher loop index i (0-based, as in the source)
    result,     \* matcher result: [found, name]
    compared    \* history: candidates compared against names, in order

vars == <<objs, arrs, rootFn, rootVal, stack, failures, outcome, ret, log,
          names, uri, rpc, ri, result, compared>>

valVars == <<objs, arrs, rootFn, rootVal, stack, failures, outcome, ret, log>>
resVars == <<names, uri, rpc, ri, result, compared>>

(***************************************************************************)
(* Bounds of the model.                                                    *)
(***************************************************************************)
MaxLen == 2         \* longest array the caller passes
StackLimit == 4     \* frames the engine's call stack holds before RangeError
MaxUriLen == 5      \* most characters of a uri string

(***************************************************************************)
(* JavaScript values.                                                      *)
(***************************************************************************)
Undef == [t |-> "undefined", s |-> "", id |-> ""]
Null == [t |-> "null", s |-> "", id |-> ""]
NumV == [t |-> "number", s |-> "1", id |-> ""]
Str(x) == [t |-> "string", s |-> x, id |-> ""]
Obj(o) == [t |-> "object", s |-> "", id |-> o]
Arr(a) == [t |-> "array", s |-> "", id |-> a]

ObjIds == {"o1", "o2"}
ArrIds == {"a1"}

TYPE_URN == "https://schema.gtsc.io/URN"
TYPE_TIMESTAMP_MILLISECONDS == "https://schema.gtsc.io/TimestampMilliseconds"
TYPE_TIMESTAMP_SECONDS == "https://schema.gtsc.io/TimestampSeconds"
TYPE_PROPERTY == "https://schema.gtsc.io/Property"
TYPE_PROPERTY_LIST == "https://schema.gtsc.io/PropertyList"
\* `${JsonLdTypes.ContextRoot}${JsonLdTypes.Document}`: registered without a validator
TYPE_JSONLD_DOCUMENT == "https://schema.twindev.org/json-ld/JsonLdDocument"
\* a syntactically valid type url nobody registered
TYPE_UNREGISTERED == "https://schema.gtsc.io/Unregistered"
NOT_A_URL == "not a url"
A_URN == "urn:a:b"

(***************************************************************************)
(* Predicates of @gtsc/core the validators call (Is, Url, Urn).            *)
(***************************************************************************)
IsEmpty(v) == v.t \in {"undefined", "null"}
IsArray(v) == v.t = "array"
IsObject(v) == v.t = "object"
IsStringValue(v) == v.t = "string" /\ v.s # ""
IsUrl(v) == v.t = "string" /\ v.s \in {TYPE_URN, TYPE_TIMESTAMP_MILLISECONDS,
                TYPE_TIMESTAMP_SECONDS, TYPE_PROPERTY, TYPE_PROPERTY_LIST,
                TYPE_JSONLD_DOCUMENT, TYPE_UNREGISTERED}
IsUrnValue(v) == v.t = "string" /\ v.s = A_URN
IsTimestamp(v) == v.t = "number"

(***************************************************************************)
(* Property paths are sequences of path tokens: `${name}[${i}]` appends    *)
(* the token "[i]", nameof(value.key, name) appends ".key".                *)
(***************************************************************************)
RootName == <<"properties">>
IndexName(name, i) == Append(name, "[" \o ToString(i) \o "]")
KeyName(name) == Append(name, ".key")
TypeName(name) == Append(name, ".type")
ValueName(name) == Append(name, ".value")
IsPrefix(p, q) == Len(p) <= Len(q) /\ SubSeq(q, 1, Len(p)) = p

Failure(name, reason) == [property |-> name, reason |-> reason]

(***************************************************************************)
(* Reading a property of a value: value.key on an object reads the field,  *)
(* on any other non-nullish value it yields undefined; on null / undefined *)
(* it throws a TypeError (CanRead is FALSE).                               *)
(***************************************************************************)
CanRead(v) == ~IsEmpty(v)
Field(v, f) == IF IsObject(v) THEN objs[v.id][f] ELSE Undef
Elems(v) == arrs[v.id]

(***************************************************************************)
(* DataTypeHandlerFactory after FrameworkDataTypes.registerTypes() and     *)
(* JsonLdDataTypes.registerTypes(): type -> the validate function of the   *)
(* handler ("none": the handler has no validate).                          *)
(***************************************************************************)
Handlers ==
    [ty \in {TYPE_URN, TYPE_TIMESTAMP_MILLISECONDS, TYPE_TIMESTAMP_SECONDS,
             TYPE_PROPERTY_LIST, TYPE_PROPERTY, TYPE_JSONLD_DOCUMENT} |->
        CASE ty = TYPE_URN -> "Urn.validate"
          [] ty = TYPE_TIMESTAMP_MILLISECONDS -> "Validation.timestampMilliseconds"
          [] ty = TYPE_TIMESTAMP_SECONDS -> "Validation.timestampSeconds"
          [] ty = TYPE_PROPERTY_LIST -> "validateIPropertyList"
          [] ty = TYPE_PROPERTY -> "validateIProperty"
          [] OTHER -> "none"]

\* DataTypeHandlerFactory.get(type)?.validate
HandlerValidate(type) == IF type \in DOMAIN Handlers THEN Handlers[type] ELSE "none"

\* The validators of the scalar types: what they append for `value`.
ScalarFailures(validate, name, value) ==
    CASE validate = "Urn.validate" ->
            IF IsUrnValue(value) THEN <<>> ELSE <<Failure(name, "validation.beUrn")>>
      [] validate = "Validation.timestampMilliseconds" ->
            IF IsTimestamp(value) THEN <<>>
            ELSE <<Failure(name, "validation.beTimestampMilliseconds")>>
      [] validate = "Validation.timestampSeconds" ->
            IF IsTimestamp(value) THEN <<>>
            ELSE <<Failure(name, "validation.beTimestampSeconds")>>
      [] OTHER -> <<>>

IsNestedValidate(validate) == validate \in {"validateIProperty", "validateIPropertyList"}

(***************************************************************************)
(* validateIProperty, lines 167-181.                                       *)
(***************************************************************************)
\* line 167: Validation.object
ObjectFailures(name, v) ==
    IF IsObject(v) THEN <<>> ELSE <<Failure(name, "validation.beObject")>>

\* lines 170-172: the three field checks, in source order, none short-circuits
FieldFailures(name, v) ==
    (IF IsStringValue(Field(v, "key")) THEN <<>>
     ELSE <<Failure(KeyName(name), "validation.beNotEmptyString")>>)
    \o (IF IsUrl(Field(v, "type")) THEN <<>>
        ELSE <<Failure(TypeName(name), "validation.beUrl")>>)
    \o (IF ~IsEmpty(Field(v, "value")) THEN <<>>
        ELSE <<Failure(ValueName(name), "validation.beNotEmpty")>>)

\* line 171: isValidTypeUrl
IsValidTypeUrl(v) == IsUrl(Field(v, "type"))

\* lines 167, 181: `return is`
PropertyReturnValue(v) == IsObject(v)

\* mutant: the validator is called with the path of the value field
DelegateName_ValuePath(name) == ValueName(name)

\* line 177: the name the nested validator is called with
DelegateName(name) == name

\* line 177: the value the nested validator is called with
DelegateValue(v) == Field(v, "value")

(***************************************************************************)
(* validateIPropertyList, lines 124-150.                                   *)
(***************************************************************************)
\* line 133: keys.includes(value[i].key)
KeyAlreadyExists(keys, k) == \E j \in 1..Len(keys) : keys[j] = k

\* lines 134-137
DuplicateFailures(name, keys, i, k) ==
    IF KeyAlreadyExists(keys, k)
    THEN <<Failure(KeyName(IndexName(name, i)), "validation.properties.keyAlreadyExists")>>
    ELSE <<>>

\* line 142: the name element i is validated under
ElementName(name, i) == IndexName(name, i)

\* lines 128, 150: `return is`
ListReturnValue(v) == IsArray(v)

(***************************************************************************)
(* Frames, history events.                                                 *)
(***************************************************************************)
Frame(fn, name, v) ==
    [fn |-> fn, name |-> name, value |-> v, pc |-> "enter", i |-> 0, keys |-> <<>>]

Event(e, fn, name, v, b) == [e |-> e, fn |-> fn, name |-> name, value |-> v, ret |-> b]

Top == stack[Len(stack)]
Running == outcome = "running" /\ stack # <<>>

(***************************************************************************)
(* Caller-supplied data: two property-like objects o1 and o2, either of    *)
(* which may hold the other (or itself) as its value, and an array a1 of   *)
(* at most MaxLen elements.                                                *)
(* Heap cells the root value does not reach hold a fixed default, so that  *)
(* every initial state is a different input.                               *)
(***************************************************************************)
FnNames == {"validateIProperty", "validateIPropertyList"}

ObjDomain1 ==
    [key : {Undef, Str("k1"), Str("k2")},
     type : {Str(NOT_A_URL), Str(TYPE_UNREGISTERED), Str(TYPE_JSONLD_DOCUMENT),
             Str(TYPE_URN), Str(TYPE_PROPERTY), Str(TYPE_PROPERTY_LIST)},
     value : {Undef, NumV, Str(A_URN), Obj("o1"), Obj("o2"), Arr("a1")}]

ObjDomain2 ==
    [key : {Str("k1"), Str("k2")},
     type : {Str(NOT_A_URL), Str(TYPE_UNREGISTERED), Str(TYPE_TIMESTAMP_SECONDS),
             Str(TYPE_PROPERTY)},
     value : {Undef, NumV, Obj("o1")}]

DefaultObj == [key |-> Str("k1"), type |-> Str(NOT_A_URL), value |-> Undef]

ArrElems == {Null, NumV, Obj("o1"), Obj("o2")}
Arrays == UNION {[1..n -> ArrElems] : n \in 0..MaxLen}

RootVals == {Undef, Null, NumV, Obj("o1"), Arr("a1")}

Refs(v) == IF v.t \in {"object", "array"} THEN {v.id} ELSE {}
OutRefs(id, os, as) ==
    IF id \in ObjIds THEN Refs(os[id].value)
    ELSE UNION {Refs(as[id][j]) : j \in DOMAIN as[id]}
ReachStep(R, os, as) == R \cup UNION {OutRefs(id, os, as) : id \in R}
Reach(v, os, as) == ReachStep(ReachStep(ReachStep(Refs(v), os, as), os, as), os, as)

NoResult == [kind |-> "pending", name |-> ""]

InitValidate ==
    /\ rootFn \in FnNames
    /\ rootVal \in RootVals
    /\ objs \in {[o1 |-> a, o2 |-> b] : a \in ObjDomain1, b \in ObjDomain2 \cup {DefaultObj}}
    /\ arrs \in [ArrIds -> Arrays]
    /\ \A o \in ObjIds \ Reach(rootVal, objs, arrs) : objs[o] = DefaultObj
    /\ \A a \in ArrIds \ Reach(rootVal, objs, arrs) : arrs[a] = <<>>
    /\ stack = <<Frame(rootFn, RootName, rootVal)>>
    /\ failures = <<>>
    /\ outcome = "running"
    /\ ret = FALSE
    /\ log = <<Event("call", rootFn, RootName, rootVal, FALSE)>>
    /\ names = {}
    /\ uri = ""
    /\ rpc = "idle"
    /\ ri = 0
    /\ result = NoResult
    /\ compared = <<>>

(***************************************************************************)
(* Call and return.                                                        *)
(***************************************************************************)
\* mutant: failures.unshift instead of failures.push
Push_Unshift(fs, new) == new \o fs

\* failures.push(...): lines 134-137, and the pushes inside the @gtsc/core validators
Push(fs, new) == fs \o new

\* `return b` from the top frame, after appending fails and recording evs
Return(b, fails, evs) ==
    /\ failures' = Push(failures, fails)
    /\ log' = log \o evs \o <<Event("return", Top.fn, Top.name, Top.value, b)>>
    /\ stack' = SubSeq(stack, 1, Len(stack) - 1)
    /\ IF Len(stack) = 1
       THEN outcome' = "returned" /\ ret' = b
       ELSE UNCHANGED <<outcome, ret>>

\* the top frame, updated to `caller`, calls fn(name, v, failures, container);
\* a call the engine's stack cannot hold throws RangeError, which nothing catches
Call(caller, fn, name, v, fails, evs) ==
    /\ failures' = Push(failures, fails)
    /\ UNCHANGED ret
    /\ IF Len(stack) >= StackLimit
       THEN /\ outcome' = "RangeError"
            /\ stack' = <<>>
            /\ log' = log \o evs
       ELSE /\ outcome' = outcome
            /\ stack' = Append([stack EXCEPT ![Len(stack)] = caller], Frame(fn, name, v))
            /\ log' = log \o evs \o <<Event("call", fn, name, v, FALSE)>>

(***************************************************************************)
(* validateIPropertyList                                                   *)
(***************************************************************************)
\* lines 124-126
ListEmpty ==
    /\ Running /\ Top.fn = "validateIPropertyList"
    /\ IsEmpty(Top.value)
    /\ Return(TRUE, <<>>, <<>>)
    /\ UNCHANGED <<objs, arrs, rootFn, rootVal, resVars>>

\* lines 128-130, 150 with a value that is no array
ListNotArray ==
    /\ Running /\ Top.fn = "validateIPropertyList"
    /\ ~IsEmpty(Top.value) /\ ~IsArray(Top.value)
    /\ Return(ListReturnValue(Top.value), <<>>, <<>>)
    /\ UNCHANGED <<objs, arrs, rootFn, rootVal, resVars>>

\* lines 132-146: one iteration; value[i].key throws on a null or undefined element
ListIteration ==
    /\ Running /\ Top.fn = "validateIPropertyList"
    /\ ~IsEmpty(Top.value) /\ IsArray(Top.value)
    /\ Top.i < Len(Elems(Top.value))
    /\ LET elem == Elems(Top.value)[Top.i + 1]
           k == Field(elem, "key")
       IN IF ~CanRead(elem)
          THEN /\ outcome' = "TypeError"
               /\ stack' = <<>>
               /\ UNCHANGED <<failures, ret, log>>
          ELSE Call([Top EXCEPT !.keys = Append(Top.keys, k), !.i = Top.i + 1],
                    "validateIProperty", ElementName(Top.name, Top.i), elem,
                    DuplicateFailures(Top.name, Top.keys, Top.i, k), <<>>)
    /\ UNCHANGED <<objs, arrs, rootFn, rootVal, resVars>>

\* line 150, after the loop
ListExit ==
    /\ Running /\ Top.fn = "validateIPropertyList"
    /\ ~IsEmpty(Top.value) /\ IsArray(Top.value)
    /\ Top.i >= Len(Elems(Top.value))
    /\ Return(ListReturnValue(Top.value), <<>>, <<>>)
    /\ UNCHANGED <<objs, arrs, rootFn, rootVal, resVars>>

(***************************************************************************)
(* validateIProperty                                                       *)
(***************************************************************************)
\* mutant: the registry is consulted whatever Url.validate returned
LookupAllowed_Always(v) == TRUE

\* line 174: the registry is consulted only under this condition
LookupAllowed(v) == IsValidTypeUrl(v)

\* line 175: the DataTypeHandlerFactory.get, recorded when it happens
LookupEvents(name, v) ==
    IF LookupAllowed(v) THEN <<Event("get", Field(v, "type").s, name, v, FALSE)>> ELSE <<>>

\* lines 175-176: the validate of the handler of value.type, "none" without one
ValidateOf(v) == IF LookupAllowed(v) THEN HandlerValidate(Field(v, "type").s) ELSE "none"

\* line 177, recorded when it happens
ValidateEvents(name, v) ==
    <<Event("validate", Field(v, "type").s, DelegateName(name), DelegateValue(v), FALSE)>>

\* lines 167, 181 with a value that is no object
PropertyNotObject ==
    /\ Running /\ Top.fn = "validateIProperty" /\ Top.pc = "enter"
    /\ ~IsObject(Top.value)
    /\ Return(PropertyReturnValue(Top.value), ObjectFailures(Top.name, Top.value), <<>>)
    /\ UNCHANGED <<objs, arrs, rootFn, rootVal, resVars>>

\* lines 167-181 when no validator is invoked
PropertyPlain ==
    /\ Running /\ Top.fn = "validateIProperty" /\ Top.pc = "enter"
    /\ IsObject(Top.value)
    /\ ValidateOf(Top.value) = "none"
    /\ Return(PropertyReturnValue(Top.value), FieldFailures(Top.name, Top.value),
              LookupEvents(Top.name, Top.value))
    /\ UNCHANGED <<objs, arrs, rootFn, rootVal, resVars>>

\* lines 167-181 when the handler's validate is one of the scalar validators
PropertyScalar ==
    /\ Running /\ Top.fn = "validateIProperty" /\ Top.pc = "enter"
    /\ IsObject(Top.value)
    /\ ValidateOf(Top.value) # "none" /\ ~IsNestedValidate(ValidateOf(Top.value))
    /\ Return(PropertyReturnValue(Top.value),
              FieldFailures(Top.name, Top.value)
                \o ScalarFailures(ValidateOf(Top.value), DelegateName(Top.name),
                                  DelegateValue(Top.value)),
              LookupEvents(Top.name, Top.value) \o ValidateEvents(Top.name, Top.value))
    /\ UNCHANGED <<objs, arrs, rootFn, rootVal, resVars>>

\* lines 167-177 when the handler's validate calls back into this class
PropertyDelegate ==
    /\ Running /\ Top.fn = "validateIProperty" /\ Top.pc = "enter"
    /\ IsObject(Top.value)
    /\ IsNestedValidate(ValidateOf(Top.value))
    /\ Call([Top EXCEPT !.pc = "delegated"], ValidateOf(Top.value),
            DelegateName(Top.name), DelegateValue(Top.value),
            FieldFailures(Top.name, Top.value),
            LookupEvents(Top.name, Top.value) \o ValidateEvents(Top.name, Top.value))
    /\ UNCHANGED <<objs, arrs, rootFn, rootVal, resVars>>

\* line 181, after the handler's validate returned
PropertyExit ==
    /\ Running /\ Top.fn = "validateIProperty" /\ Top.pc = "delegated"
    /\ Return(PropertyReturnValue(Top.value), <<>>, <<>>)
    /\ UNCHANGED <<objs, arrs, rootFn, rootVal, resVars>>

(***************************************************************************)
(* IdentifierHandlerFactory: the matcher (names, uri) => name | undefined  *)
(***************************************************************************)
RECURSIVE SplitFrom(_, _, _, _)
SplitFrom(str, k, cur, acc) ==
    IF k > Len(str) THEN Append(acc, cur)
    ELSE IF SubSeq(str, k, k) = ":"
         THEN SplitFrom(str, k + 1, "", Append(acc, cur))
         ELSE SplitFrom(str, k + 1, cur \o SubSeq(str, k, k), acc)

\* str.split(":")
Split(str) == SplitFrom(str, 1, "", <<>>)

RECURSIVE Join(_)
\* parts.join(":")
Join(parts) ==
    IF parts = <<>> THEN ""
    ELSE IF Len(parts) = 1 THEN parts[1]
         ELSE parts[1] \o ":" \o Join(Tail(parts))

\* Urn.guard accepts: a non-empty string of ":"-separated non-empty segments
IsUrn(str) == str # "" /\ \A j \in 1..Len(Split(str)) : Split(str)[j] # ""

\* mutant: the guard is missing
GuardPasses_Always(str) == TRUE

\* line 199: execution continues past the guard
GuardPasses(str) == IsUrn(str)

\* lines 201-202: Urn.fromValidString(uri).parts()
UrnParts(str) == Split(str)

\* line 204: the first value of i
StartIndex(parts) == Len(parts) - 1

\* line 204: the step of i
NextIndex(i) == i - 1

\* line 205: urnParts.slice(i).join(":")
WholeNamespace(parts, i) == Join(SubSeq(parts, i + 1, Len(parts)))

Chars == {"a", "b", ":"}
RECURSIVE StringsOfLen(_)
StringsOfLen(n) ==
    IF n = 0 THEN {""} ELSE {str \o c : str \in StringsOfLen(n - 1), c \in Chars}
Uris == UNION {StringsOfLen(n) : n \in 0..MaxUriLen}
NameUniverse == {"b", "a:b", "b:b", "a:a:b"}

InitResolve ==
    /\ names \in SUBSET NameUniverse
    /\ uri \in Uris
    /\ rpc = "guard"
    /\ ri = 0
    /\ result = NoResult
    /\ compared = <<>>
    /\ objs = [o1 |-> DefaultObj, o2 |-> DefaultObj]
    /\ arrs = [a \in ArrIds |-> <<>>]
    /\ rootFn = "resolve"
    /\ rootVal = Undef
    /\ stack = <<>>
    /\ failures = <<>>
    /\ outcome = "idle"
    /\ ret = FALSE
    /\ log = <<>>

\* line 199: Urn.guard throws
ResolveGuardThrows ==
    /\ rpc = "guard"
    /\ ~GuardPasses(uri)
    /\ rpc' = "done"
    /\ result' = [kind |-> "GuardError", name |-> ""]
    /\ UNCHANGED <<names, uri, ri, compared, valVars>>

\* lines 199-204: the guard passes, the loop starts at the last index
ResolveStart ==
    /\ rpc = "guard"
    /\ GuardPasses(uri)
    /\ rpc' = "loop"
    /\ ri' = StartIndex(UrnParts(uri))
    /\ UNCHANGED <<names, uri, result, compared, valVars>>

\* lines 204-208: one iteration
ResolveIteration ==
    /\ rpc = "loop"
    /\ ri >= 0
    /\ LET wholeNamespace == WholeNamespace(UrnParts(uri), ri)
       IN /\ compared' = Append(compared, wholeNamespace)
          /\ IF wholeNamespace \in names
             THEN /\ result' = [kind |-> "name", name |-> wholeNamespace]
                  /\ rpc' = "done"
                  /\ ri' = ri
             ELSE /\ ri' = NextIndex(ri)
                  /\ UNCHANGED <<result, rpc>>
    /\ UNCHANGED <<names, uri, valVars>>

\* line 210: the loop ends without a match, the matcher returns undefined
ResolveNoMatch ==
    /\ rpc = "loop"
    /\ ri < 0
    /\ rpc' = "done"
    /\ result' = [kind |-> "undefined", name |-> ""]
    /\ UNCHANGED <<names, uri, ri, compared, valVars>>

(***************************************************************************)
(* Specification                                                           *)
(***************************************************************************)
Init == InitValidate \/ InitResolve

Next ==
    \/ ListEmpty
    \/ ListNotArray
    \/ ListIteration
    \/ ListExit
    \/ PropertyNotObject
    \/ PropertyPlain
    \/ PropertyScalar
    \/ PropertyDelegate
    \/ PropertyExit
    \/ ResolveGuardThrows
    \/ ResolveStart
    \/ ResolveIteration
    \/ ResolveNoMatch

Spec == Init /\ [][Next]_vars

(***************************************************************************)
(* Properties                                                              *)
(***************************************************************************)
Validating == rootFn \in FnNames
Resolving == rootFn = "resolve"
Finished == outcome \in {"returned", "TypeError", "RangeError"}

\* the ":"-suffixes of a uri string, as strings
Suffixes(str) ==
    {Join(SubSeq(Split(str), j, Len(Split(str)))) : j \in 1..Len(Split(str))}

\* C1: for a well-formed uri, the matcher returns the longest suffix of the
\* uri's segments that is in names, and undefined exactly when no suffix is.
C1_LongestSuffixWins ==
    (Resolving /\ rpc = "done" /\ IsUrn(uri)) =>
        LET hits == Suffixes(uri) \cap names
        IN IF hits = {} THEN result.kind = "undefined"
           ELSE /\ result.kind = "name"
                /\ result.name \in hits
                /\ \A h \in hits : Len(h) <= Len(result.name)

\* the rules of a well-formed Property record
StructurallyValid(v) ==
    /\ IsObject(v)
    /\ IsStringValue(Field(v, "key"))
    /\ IsUrl(Field(v, "type"))
    /\ ~IsEmpty(Field(v, "value"))

\* C2: every validateIProperty call returns true if and only if every
\* structural rule passed (object, non-empty string key, valid type url,
\* non-empty value).
C2_TrueIffStructurallyValid ==
    \A n \in DOMAIN log :
        (log[n].e = "return" /\ log[n].fn = "validateIProperty") =>
            (log[n].ret <=> StructurallyValid(log[n].value))

DuplicateKeyFailure(name, i) ==
    Failure(KeyName(IndexName(name, i)), "validation.properties.keyAlreadyExists")

Count(seq, x) == Cardinality({n \in DOMAIN seq : seq[n] = x})

\* what C3 says of a finished validateIPropertyList(RootName, rootVal) on an array
DuplicatesReportedAllValidated ==
    \A i \in 0..(Len(Elems(rootVal)) - 1) :
        LET elem == Elems(rootVal)[i + 1]
            earlier == \E j \in 0..(i - 1) :
                          Field(Elems(rootVal)[j + 1], "key") = Field(elem, "key")
        IN /\ Count(failures, DuplicateKeyFailure(RootName, i)) = (IF earlier THEN 1 ELSE 0)
           /\ Count(log, Event("call", "validateIProperty", IndexName(RootName, i),
                               elem, FALSE)) = 1

\* C3: for every array passed to validateIPropertyList, once the call is over
\* a duplicate-key failure was appended exactly for the indices whose key
\* equals an earlier key, and every element was passed to validateIProperty
\* exactly once under propertyName[i].
C3_DuplicatesNeverAbort ==
    (rootFn = "validateIPropertyList" /\ IsArray(rootVal) /\ Finished) =>
        DuplicatesReportedAllValidated

\* C4: no validation call ends in an error: it runs, or it has returned a boolean.
C4_NeverRaises ==
    Validating => outcome \in {"running", "returned"}

\* C5: a finished validateIPropertyList call has returned true exactly when
\* its input is empty/absent or an array, false otherwise, and has appended
\* nothing for an empty/absent input.
C5_ListResult ==
    (rootFn = "validateIPropertyList" /\ Finished) =>
        /\ outcome = "returned"
        /\ ret <=> (IsEmpty(rootVal) \/ IsArray(rootVal))
        /\ IsEmpty(rootVal) => failures = <<>>

\* the failures appended by a step
Appended == SubSeq(failures', Len(failures) + 1, Len(failures'))
\* the history events recorded by a step
Recorded == SubSeq(log', Len(log) + 1, Len(log'))

C6_LookupsAndDelegationsJustified ==
    \A n \in DOMAIN log :
        /\ log[n].e = "get" => IsUrl(Field(log[n].value, "type"))
        /\ log[n].e = "validate" =>
              /\ log[n].fn \in DOMAIN Handlers
              /\ Handlers[log[n].fn] # "none"

C6_UnregisteredStep ==
    (/\ Running /\ Top.fn = "validateIProperty" /\ Top.pc = "enter"
     /\ IsObject(Top.value)
     /\ \/ Field(Top.value, "type").s \notin DOMAIN Handlers
        \/ Handlers[Field(Top.value, "type").s] = "none") =>
        /\ outcome' \in {"running", "returned"}
        /\ Len(stack') = Len(stack) - 1
        /\ \A j \in DOMAIN Recorded : Recorded[j].e # "validate"
        /\ Len(failures') >= Len(failures)
        /\ \A j \in DOMAIN Appended :
              /\ Appended[j].property \in
                    {KeyName(Top.name), TypeName(Top.name), ValueName(Top.name)}
              /\ Appended[j].reason \in
                    {"validation.beNotEmptyString", "validation.beUrl", "validation.beNotEmpty"}

\* C6: the registry is consulted only for a valid type url, a validator is
\* invoked only for a type registered with one, and a validateIProperty call
\* on an object whose type has no registered validator appends nothing but
\* its own field failures, invokes nothing and raises nothing.
C6_UnregisteredIsPermissive ==
    []C6_LookupsAndDelegationsJustified /\ [][C6_UnregisteredStep]_vars

\* C6 witness: a property of an unregistered (valid) type whose value is an
\* array was validated and the call returned.
C6_Witness ==
    /\ outcome = "returned" /\ rootFn = "validateIProperty" /\ rootVal = Obj("o1")
    /\ objs["o1"].type = Str(TYPE_UNREGISTERED) /\ objs["o1"].value = Arr("a1")
    /\ \E n \in DOMAIN log : log[n].e = "get" /\ log[n].fn = TYPE_UNREGISTERED
    /\ ret = TRUE

C7_DelegationArguments ==
    \A n \in DOMAIN log :
        log[n].e = "validate" =>
            \E m \in 1..(n - 1) :
                /\ log[m].e = "call" /\ log[m].fn = "validateIProperty"
                /\ log[m].name = log[n].name
                /\ IsObject(log[m].value)
                /\ Field(log[m].value, "type") = Str(log[n].fn)
                /\ Field(log[m].value, "value") = log[n].value

C7_ShapeValidReturnsTrue ==
    \A n \in DOMAIN log :
        (log[n].e = "return" /\ log[n].fn = "validateIProperty" /\ IsObject(log[n].value))
            => log[n].ret

C7_RootedStep ==
    \A k \in DOMAIN stack : \A j \in DOMAIN Appended :
        IsPrefix(stack[k].name, Appended[j].property)

IndexTokens == {"[" \o ToString(i) \o "]" : i \in 0..MaxLen}
TokenIndex(tok) == CHOOSE i \in 0..MaxLen : tok = "[" \o ToString(i) \o "]"

\* failures are ordered by element index at every list position of their paths
C8_Ordered ==
    \A m \in DOMAIN failures : \A n \in DOMAIN failures :
        m < n =>
            LET pm == failures[m].property
                pn == failures[n].property
            IN \A d \in 1..Len(pm) :
                  (/\ d <= Len(pn)
                   /\ SubSeq(pm, 1, d - 1) = SubSeq(pn, 1, d - 1)
                   /\ pm[d] \in IndexTokens /\ pn[d] \in IndexTokens)
                      => TokenIndex(pm[d]) <= TokenIndex(pn[d])

\* C8: no step removes or reorders an entry of failures, and all failures of
\* element i of a list (its duplicate-key failure, its structural failures,
\* those of its nested validators) precede those of element i+1.
C8_TraversalOrder ==
    []C8_Ordered /\ [][IsPrefix(failures, failures')]_vars

\* C8 witness: a list call returned with a nested failure of element 0 (two
\* levels down) followed by a failure of element 1.
C8_Witness ==
    /\ outcome = "returned" /\ rootFn = "validateIPropertyList"
    /\ \E m \in DOMAIN failures : \E n \in DOMAIN failures :
          /\ m < n
          /\ Len(failures[m].property) >= 3
          /\ failures[m].property[2] = "[0]"
          /\ failures[n].property[2] = "[1]"
          /\ failures[n].reason = "validation.properties.keyAlreadyExists"

\* C9: for a uri that is no valid identifier the matcher ends in the guard's
\* error, having compared no candidate with names and returned no name.
C9_GuardBeforeResolution ==
    (Resolving /\ ~IsUrn(uri)) =>
        /\ compared = <<>>
        /\ result.kind \in {"pending", "GuardError"}
        /\ rpc = "done" => result.kind = "GuardError"

\* C9 witness: the delimiter-only uri ":" ended in the guard's error.
C9_Witness ==
    Resolving /\ uri = ":" /\ names # {} /\ rpc = "done" /\ result.kind = "GuardError"

\* C10: validation is a traversal bounded by the data (the stack is never
\* deeper than the number of objects and arrays, and is never exhausted), and
\* the matcher makes at most one comparison per segment.
C10_BoundedTraversal ==
    /\ outcome # "RangeError"
    /\ Len(stack) <= Cardinality(ObjIds \cup ArrIds)
    /\ Resolving => Len(compared) <= Len(Split(uri))

====
